---------------------------- MODULE Spec2Model ----------------------------
(***************************************************************************)
(* Model of the change-log synchronizer of invenio-curations:              *)
(*   services/diff.py     DiffElement, DiffDescription, DiffProcessor      *)
(*   services/comment.py  CommentProcessor                                 *)
(*   services/events.py   CurationsEventsService.update                    *)
(*   services/utils.py    cleanup_html_tags                                *)
(*                                                                         *)
(* Text is modelled as a sequence of tokens.  A token is one character,    *)
(* except "<i>", which stands for one well-formed HTML tag, and the words  *)
(* "metadata", "title", "description", "f", which stand for runs of        *)
(* letters that no operation of the program splits.                        *)
(***************************************************************************)
EXTENDS Integers, Sequences, FiniteSets, TLC

(***************************************************************************)
(* Text helpers                                                            *)
(***************************************************************************)
Chars(s) == {s[i] : i \in DOMAIN s}

RECURSIVE Filter(_, _)
\* the sub-sequence of s whose tokens are in keep
Filter(s, keep) ==
    IF s = <<>> THEN <<>>
    ELSE IF Head(s) \in keep THEN <<Head(s)>> \o Filter(Tail(s), keep)
    ELSE Filter(Tail(s), keep)

RECURSIVE LStrip(_)
LStrip(s) == IF s # <<>> /\ Head(s) = " " THEN LStrip(Tail(s)) ELSE s

RECURSIVE RStrip(_)
RStrip(s) ==
    IF s # <<>> /\ s[Len(s)] = " " THEN RStrip(SubSeq(s, 1, Len(s) - 1)) ELSE s

\* str.strip()
Strip(s) == LStrip(RStrip(s))

\* utils.cleanup_html_tags on a str: the tags are dropped, the data is kept
cleanup_html_tags(s) == Filter(s, Chars(s) \ {"<i>"})

\* old.join(...split(new)) : every occurrence of one separator becomes the other
Replace(s, from, to) == [i \in DOMAIN s |-> IF s[i] = from THEN to ELSE s[i]]

\* " ".join(key.split("."))
RenderKey(key) == Replace(key, ".", " ")
\* ".".join(key.split(" "))
ParseKey(key) == Replace(key, " ", ".")

HasPipe(s) == "|" \in Chars(s)

(***************************************************************************)
(* Diff tuples.  _diff = (update, key, result).  result is                 *)
(*   kind "tuple" : the pair (a, b)       -- (old, new) of a change        *)
(*   kind "list1" : the list [(a, b)]     -- [(field, value)] of add/remove*)
(*   kind "other" : any other shape (a longer list, a scalar)              *)
(***************************************************************************)
Tup(a, b)   == [kind |-> "tuple", a |-> a, b |-> b]
List1(a, b) == [kind |-> "list1", a |-> a, b |-> b]

\* class DiffDescription: _name
DiffDescription_name == <<"metadata", ".", "description">>

\* the characters json.dumps always emits for a pair or a one-pair list
JsonPunct == {"[", "]", "\"", ",", " "}

\* set(json.dumps(result)): the SET OF CHARACTERS of the JSON text
json_dumps_set(result) == JsonPunct \cup Chars(result.a) \cup Chars(result.b)

\* DiffElement.__eq__ between two elements
DiffElement_eq(x, y) ==
    /\ x.update = y.update
    /\ x.key = y.key
    /\ json_dumps_set(x.result) = json_dumps_set(y.result)

\* DiffElement.match_diff_key / DiffDescription.match_diff_key; the result[0]
\* of a one-item list is a pair here, never a dict
match_diff_key(cls, df) ==
    IF cls = "DiffElement" THEN TRUE ELSE df.key = DiffDescription_name

\* current_curations_service.comments_mapping: the configured variants
comments_mapping == <<"DiffDescription", "DiffElement">>

RECURSIVE MapFrom(_, _, _)
MapFrom(conf, i, df) ==
    IF i > Len(conf) THEN "DiffElement"
    ELSE IF match_diff_key(conf[i], df) THEN conf[i]
    ELSE MapFrom(conf, i + 1, df)

\* DiffProcessor._map_one_diff
map_one_diff(df) == MapFrom(comments_mapping, 1, df)

\* a key that is no str (a list of path segments) and a key that is one
NotStrKey == <<"[", "metadata", "]">>
IsStr(key) == key # NotStrKey

\* DiffDescription.match_diff_key raises on `result[0].keys().next()`: a str
\* key other than _name with a one-item list whose item is a dict (result
\* kind "listdict")
match_diff_key_raises(cls, df) ==
    /\ cls = "DiffDescription"
    /\ IsStr(df.key) /\ df.key # DiffDescription_name
    /\ df.result.kind = "listdict"

RECURSIVE MapRaisesFrom(_, _, _)
\* whether the loop of _map_one_diff meets a raising match before a match
MapRaisesFrom(conf, i, df) ==
    IF i > Len(conf) THEN FALSE
    ELSE IF match_diff_key_raises(conf[i], df) THEN TRUE
    ELSE IF match_diff_key(conf[i], df) THEN FALSE
    ELSE MapRaisesFrom(conf, i + 1, df)

\* DiffProcessor(configured_elements=conf)._map_one_diff(df): [ok, cls]; not
\* ok is an exception
map_one_diff_with(conf, df) ==
    IF MapRaisesFrom(conf, 1, df) THEN [ok |-> FALSE, cls |-> ""]
    ELSE [ok |-> TRUE, cls |-> MapFrom(conf, 1, df)]

\* an element: the class chosen for it and its _diff
Elem(cls, update, key, result) ==
    [cls |-> cls, update |-> update, key |-> key, result |-> result]

\* DiffProcessor.map_and_build_diffs for one raw diff
Build(update, key, result) ==
    Elem(map_one_diff([update |-> update, key |-> key, result |-> result]),
         update, key, result)

\* DiffElement.validate_and_cleanup / DiffDescription.validate_and_cleanup:
\* whether the element stays
ElemValid(e) == e.result.kind \in {"tuple", "list1"}

\* ... and the element as the call leaves it
ElemCleaned(e) ==
    IF e.cls = "DiffDescription" /\ e.result.kind = "tuple"
    THEN [e EXCEPT !.result.a = Strip(cleanup_html_tags(@)),
                   !.result.b = Strip(cleanup_html_tags(@))]
    ELSE IF e.cls = "DiffDescription" /\ e.result.kind = "list1"
    THEN [e EXCEPT !.result.b = Strip(cleanup_html_tags(@))]
    ELSE e

\* index of the first element of diffs that == x, 0 when there is none
RECURSIVE FirstEqFrom(_, _, _)
FirstEqFrom(diffs, x, i) ==
    IF i > Len(diffs) THEN 0
    ELSE IF DiffElement_eq(diffs[i], x) THEN i
    ELSE FirstEqFrom(diffs, x, i + 1)

RemoveAt(s, i) == SubSeq(s, 1, i - 1) \o SubSeq(s, i + 1, Len(s))

\* list.remove(x): [ok, diffs]; not ok is ValueError
ListRemove(diffs, x) ==
    LET i == FirstEqFrom(diffs, x, 1)
    IN  IF i = 0 THEN [ok |-> FALSE, diffs |-> diffs]
        ELSE [ok |-> TRUE, diffs |-> RemoveAt(diffs, i)]

RECURSIVE RemoveEach(_, _)
\* for remove in to_remove: self._diffs.remove(remove)
RemoveEach(diffs, to_remove) ==
    IF to_remove = <<>> THEN [ok |-> TRUE, diffs |-> diffs]
    ELSE LET r == ListRemove(diffs, Head(to_remove))
         IN  IF r.ok THEN RemoveEach(r.diffs, Tail(to_remove)) ELSE r

RECURSIVE InvalidOf(_)
InvalidOf(diffs) ==
    IF diffs = <<>> THEN <<>>
    ELSE IF ElemValid(Head(diffs)) THEN InvalidOf(Tail(diffs))
    ELSE <<Head(diffs)>> \o InvalidOf(Tail(diffs))

\* mutant: the elements are left as they came
validate_and_cleanup_skipped(diffs) == diffs

\* DiffProcessor.validate_and_cleanup
validate_and_cleanup(diffs) ==
    LET cleaned == [i \in DOMAIN diffs |->
                       IF ElemValid(diffs[i]) THEN ElemCleaned(diffs[i]) ELSE diffs[i]]
    IN  RemoveEach(cleaned, InvalidOf(cleaned)).diffs


\* mutant: two changes of one field are kept without taking over the old value
DiffElement_compare_no_rewrite(this, other) ==
    IF this.key # other.key
    THEN [res |-> "None", diff |-> this]
    ELSE IF /\ json_dumps_set(this.result) = json_dumps_set(other.result)
            /\ this.update # other.update
            /\ this.update # "change"
            /\ other.update # "change"
    THEN [res |-> "False", diff |-> this]
    ELSE IF this.update = "change" /\ other.update = "change"
    THEN IF this.result.kind # "tuple" \/ other.result.kind # "tuple"
         THEN [res |-> "raise", diff |-> this]
         ELSE IF other.result.a = this.result.b
         THEN [res |-> "False", diff |-> this]
         ELSE [res |-> "True", diff |-> this]
    ELSE [res |-> "True", diff |-> this]

\* DiffElement.compare: res is "None", "False" or "True" (and the element as
\* the call leaves it), or "raise" when a payload does not unpack into two
DiffElement_compare(this, other) ==
    IF this.key # other.key
    THEN [res |-> "None", diff |-> this]
    ELSE IF /\ json_dumps_set(this.result) = json_dumps_set(other.result)
            /\ this.update # other.update
            /\ this.update # "change"
            /\ other.update # "change"
    THEN [res |-> "False", diff |-> this]
    ELSE IF this.update = "change" /\ other.update = "change"
    THEN IF this.result.kind # "tuple" \/ other.result.kind # "tuple"
         THEN [res |-> "raise", diff |-> this]
         ELSE IF other.result.a = this.result.b
         THEN [res |-> "False", diff |-> this]
         ELSE [res |-> "True",
               diff |-> [this EXCEPT !.result = Tup(other.result.a, this.result.b)]]
    \* `self._diff == other` compares a tuple with a DiffElement: never equal
    ELSE [res |-> "True", diff |-> this]

\* DiffProcessor._get_joined_update: "update|key|result".  The text is kept as
\* the three parts it was joined from.
get_joined_update(e) == [update |-> e.update, key |-> e.key, result |-> e.result]

\* DiffProcessor._get_split_update raises when the text does not split back
\* into three parts of which the third is a literal: a "|" in the key or in a
\* value cuts the third part short
SplitRaises(u) == HasPipe(u.key) \/ HasPipe(u.result.a) \/ HasPipe(u.result.b)

\* DiffProcessor._get_split_update: always a plain DiffElement
get_split_update(u) == Elem("DiffElement", u.update, u.key, u.result)

RECURSIVE ScanOther(_, _, _, _, _)
\* the inner loop of DiffProcessor.compare for one element of this
ScanOther(e, other, j, rm, skip) ==
    IF j > Len(other)
    THEN [ok |-> TRUE, e |-> e, rm |-> rm, skip |-> skip]
    ELSE LET c == DiffElement_compare(e, other[j])
         IN  IF c.res = "raise"
             THEN [ok |-> FALSE, e |-> e, rm |-> rm, skip |-> skip]
             ELSE IF c.res = "None"
             THEN ScanOther(e, other, j + 1, rm, skip)
             ELSE ScanOther(c.diff, other, j + 1,
                            IF c.res = "False"
                            THEN rm \cup {get_joined_update(c.diff)} ELSE rm,
                            skip \cup {get_joined_update(other[j])})

RECURSIVE ScanThis(_, _, _, _, _)
\* the outer loop of DiffProcessor.compare
ScanThis(diffs, other, i, rm, skip) ==
    IF i > Len(diffs)
    THEN [ok |-> TRUE, diffs |-> diffs, rm |-> rm, skip |-> skip]
    ELSE LET r == ScanOther(diffs[i], other, 1, rm, skip)
         IN  IF ~r.ok
             THEN [ok |-> FALSE, diffs |-> diffs, rm |-> rm, skip |-> skip]
             ELSE ScanThis([diffs EXCEPT ![i] = r.e], other, i + 1, r.rm, r.skip)

\* to_add of DiffProcessor.compare: the joined texts of the elements of other
\* that no element of this touched
ToAdd(this, other) ==
    LET s == ScanThis(validate_and_cleanup(this), other, 1, {}, {})
    IN  IF ~s.ok THEN {}
        ELSE {get_joined_update(other[j]) : j \in
                 {k \in DOMAIN other : get_joined_update(other[k]) \notin s.skip}}

\* the orders in which a set can be iterated
Orders(S) == {f \in [1..Cardinality(S) -> S] : \A i, j \in DOMAIN f : i # j => f[i] # f[j]}

RECURSIVE SetToSeq(_)
SetToSeq(S) == IF S = {} THEN <<>>
               ELSE LET x == CHOOSE x \in S : TRUE IN <<x>> \o SetToSeq(S \ {x})

\* DiffProcessor.compare.  ord is the order in which the set to_add is
\* iterated.  [ok, diffs]; not ok is an exception leaving compare.
DiffProcessor_compare(this, other, ord) ==
    LET s == ScanThis(validate_and_cleanup(this), other, 1, {}, {})
        fail == [ok |-> FALSE, diffs |-> <<>>]
    IN  IF ~s.ok THEN fail
        ELSE IF \E u \in ToAdd(this, other) \cup s.rm : SplitRaises(u) THEN fail
        ELSE LET appended == s.diffs \o [k \in DOMAIN ord |-> get_split_update(ord[k])]
                 removed == RemoveEach(appended,
                               [k \in 1..Cardinality(s.rm) |->
                                   get_split_update(SetToSeq(s.rm)[k])])
             IN  IF removed.ok THEN removed ELSE fail

(***************************************************************************)
(* Rendering and parsing.  A rendered comment is kept as its lines: the    *)
(* header line and the three groups; unparsable marks content in which a   *)
(* hand edit left a line that ast.literal_eval rejects.  A line is the     *)
(* text of a one-key dict: its key and the payload under it, where kind    *)
(* "dict" is {'old': a, 'new': b}.                                         *)
(***************************************************************************)
\* DiffProcessor._known_actions: label -> header line
known_actions(action) ==
    CASE action = "resubmit" -> <<"resubmitted", " ", "changes">>
      [] action = "update_while_critiqued" -> <<"work", " ", "in", " ", "progress">>
      [] action = "update_while_review" -> <<"updated">>
      [] OTHER -> <<"Action", " ", "triggered">>

KnownActions == {"resubmit", "update_while_critiqued", "update_while_review", "default"}

\* DiffElement.to_html: the line of one element
DiffElement_to_html(e) ==
    IF e.update # "change"
    THEN [key |-> RenderKey(e.key), result |-> e.result]
    ELSE [key |-> RenderKey(e.key), result |-> [e.result EXCEPT !.kind = "dict"]]

\* `old, new = result` of DiffElement.to_html fails on a one-item list
ToHtmlRaises(e) == e.update = "change" /\ e.result.kind # "tuple"

RECURSIVE LinesOf(_, _)
\* the lines of one group, in element order
LinesOf(diffs, update) ==
    IF diffs = <<>> THEN <<>>
    ELSE IF Head(diffs).update = update
    THEN <<DiffElement_to_html(Head(diffs))>> \o LinesOf(Tail(diffs), update)
    ELSE LinesOf(Tail(diffs), update)

\* DiffProcessor.to_html: [ok, content]; not ok is an exception
to_html(diffs, action) ==
    LET v == validate_and_cleanup(diffs)
        label == IF action \in KnownActions THEN action ELSE "default"
    IN  IF \E i \in DOMAIN v : ToHtmlRaises(v[i])
        THEN [ok |-> FALSE, content |-> <<>>]
        ELSE [ok |-> TRUE,
              content |-> [header |-> known_actions(label),
                           adds |-> LinesOf(v, "add"),
                           changes |-> LinesOf(v, "change"),
                           removes |-> LinesOf(v, "remove"),
                           unparsable |-> FALSE]]

\* the text of a line once cleanup_html_tags has run over the comment
LineText(line) ==
    [key |-> cleanup_html_tags(line.key),
     result |-> [line.result EXCEPT !.a = cleanup_html_tags(@),
                                    !.b = cleanup_html_tags(@)]]

\* from_html on one line of a zone: map, then DiffElement.build_diff
ParseLine(update, line) ==
    LET t == LineText(line)
        res == IF update = "change" THEN [t.result EXCEPT !.kind = "tuple"] ELSE t.result
    IN  Build(update, ParseKey(t.key), res)

\* result["old"] of build_diff fails unless the payload is a dict
ParseLineRaises(update, line) == update = "change" /\ line.result.kind # "dict"

\* DiffProcessor._added, _changed, _removed: the sentinel lines
DiffProcessor_added == <<"Added:">>
DiffProcessor_changed == <<"Changed:">>
DiffProcessor_removed == <<"Removed:">>

\* a line of the comment once the tags are gone, the text is split at the
\* line ends and the blank lines are left out: free text (the header, a
\* sentinel, anything typed), the text of a one-key dict (an entry), or the
\* text of a literal that is no dict (kind "nondict")
TextLine(text) ==
    [kind |-> "text", text |-> text, key |-> <<>>, result |-> Tup(<<>>, <<>>)]
DictLine(entry) ==
    [kind |-> "dict", text |-> <<>>, key |-> entry.key, result |-> entry.result]

\* the block of a group without its {% if group|length > 0 %}
Section_unguarded(msg, group) ==
    <<TextLine(msg)>> \o [i \in DOMAIN group |-> DictLine(group[i])]

\* one {% if group|length > 0 %} block of the template
Section(msg, group) ==
    IF group = <<>> THEN <<>>
    ELSE <<TextLine(msg)>> \o [i \in DOMAIN group |-> DictLine(group[i])]

\* Template(template_string).render(...) as list_of_updates of from_html
\* reads it: the header line, then the blocks of the groups that are not
\* empty; content a person typed has a second line of free text
ContentLines(content) ==
    <<TextLine(content.header)>>
    \o Section(DiffProcessor_added, content.adds)
    \o Section(DiffProcessor_changed, content.changes)
    \o Section(DiffProcessor_removed, content.removes)
    \o (IF content.unparsable THEN <<TextLine(<<"hand">>)>> ELSE <<>>)

RECURSIVE ParseFrom(_, _, _, _)
\* the loop of from_html over list_of_updates from line i on; zone is the
\* zone flag that is set ("none" before any sentinel)
ParseFrom(lines, i, zone, acc) ==
    IF i > Len(lines) THEN [ok |-> TRUE, diffs |-> acc]
    ELSE LET l == lines[i]
             text == cleanup_html_tags(l.text)
         IN  IF l.kind = "text" /\ text = DiffProcessor_added
             THEN ParseFrom(lines, i + 1, "add", acc)
             ELSE IF l.kind = "text" /\ text = DiffProcessor_changed
             THEN ParseFrom(lines, i + 1, "change", acc)
             ELSE IF l.kind = "text" /\ text = DiffProcessor_removed
             THEN ParseFrom(lines, i + 1, "remove", acc)
             \* no variant evaluates the line to a dict with a key
             ELSE IF l.kind # "dict"
             THEN [ok |-> FALSE, diffs |-> <<>>]
             ELSE IF zone = "none"
             THEN ParseFrom(lines, i + 1, zone, acc)
             ELSE IF ParseLineRaises(zone, l)
             THEN [ok |-> FALSE, diffs |-> <<>>]
             ELSE ParseFrom(lines, i + 1, zone, Append(acc, ParseLine(zone, l)))

\* DiffProcessor.from_html on the lines of a comment: list_of_updates[1:]
from_html_lines(lines) == ParseFrom(lines, 2, "none", <<>>)

\* DiffProcessor.from_html: [ok, diffs]; not ok is an exception
from_html(content) == from_html_lines(ContentLines(content))

(***************************************************************************)
(* The request, its event log and the events service                       *)
(***************************************************************************)
\* bounds of the synchronizer model
MaxLog == 4
MaxRevision == 3

NoContent == [header |-> <<>>, adds |-> <<>>, changes |-> <<>>, removes |-> <<>>,
              unparsable |-> FALSE]

\* what a person typed: no rendered comment
HandWritten == [NoContent EXCEPT !.header = <<"hand">>, !.unparsable = TRUE]

\* a hit of the events search: type "L" (log event, payload.event) or "C"
\* (comment, created_by.user, payload.content, revision_id)
LogEvent(event) == [type |-> "L", event |-> event, user |-> "", content |-> NoContent,
                    revision_id |-> 1]
CommentEvent(user, content) == [type |-> "C", event |-> "", user |-> user,
                                content |-> content, revision_id |-> 1]

OpenStatuses == {"submitted", "review", "critiqued", "resubmitted"}
Statuses == OpenStatuses \cup {"accepted"}

\* the request actions of the workflow: from status, action, to status
Transitions == {<<"submitted", "review">>, <<"review", "critiqued">>,
                <<"review", "accepted">>, <<"critiqued", "resubmitted">>,
                <<"resubmitted", "review">>}

\* mutant: the revision is not compared
check_revision_id_skipped(event, revision_id) == TRUE

\* RecordService.check_revision_id as called by CurationsEventsService.update
check_revision_id(event, revision_id) == event.revision_id = revision_id

\* CurationsEventsService.update: [ok, log].  accepts: whether the steps that
\* depend on the deployment (permission, schema load, the payload's
\* base_content_object, the commit) go through.
events_update(lg, id, content, revision_id, accepts) ==
    IF id \notin DOMAIN lg \/ lg[id].type # "C"
    THEN [ok |-> FALSE, exc |-> "Exception", log |-> lg]
    ELSE IF ~check_revision_id(lg[id], revision_id)
    THEN [ok |-> FALSE, exc |-> "RevisionIdMismatchError", log |-> lg]
    ELSE IF ~accepts
    THEN [ok |-> FALSE, exc |-> "Exception", log |-> lg]
    ELSE [ok |-> TRUE, exc |-> "",
          log |-> [lg EXCEPT ![id].content = content, ![id].revision_id = @ + 1]]

\* RequestEventsService.create with CommentEventType: [ok, log]
events_create(lg, identity, content, accepts) ==
    IF ~accepts THEN [ok |-> FALSE, exc |-> "Exception", log |-> lg]
    ELSE [ok |-> TRUE, exc |-> "", log |-> Append(lg, CommentEvent(identity, content))]

(***************************************************************************)
(* CommentProcessor                                                        *)
(***************************************************************************)
\* CommentProcessor._validate_request
validate_request(req) == req.is_dict /\ req.is_open

\* mutant: the author of the comment is not looked at
is_comment_hit_any_author(hit) == hit.type = "C"

\* CommentProcessor._is_comment_hit
is_comment_hit(hit) == hit.type = "C" /\ hit.user = "system"

MaxOf(S) == IF S = {} THEN 0 ELSE CHOOSE i \in S : \A j \in S : j <= i

\* the loop of the resubmitted branch: index of the last system comment of
\* the whole search result, 0 for None
last_created_comment(hits) == MaxOf({i \in DOMAIN hits : is_comment_hit(hits[i])})

\* ... and the event of the last log entry that is no system comment, "None"
\* when there is none
last_request_log_event(hits) ==
    LET i == MaxOf({k \in DOMAIN hits : hits[k].type = "L"})
    IN  IF i = 0 THEN "None" ELSE hits[i].event

\* what one call decided: kind is "invalid" (sanity check failed), "none"
\* (no branch wrote), "create", "update" or "exception"
Decision(kind, label, id, revision_id, content, parsed) ==
    [kind |-> kind, label |-> label, id |-> id, revision_id |-> revision_id,
     content |-> content, parsed |-> parsed]

Raised == Decision("exception", "", 0, 0, NoContent, 0)

\* mutant: the label is not passed on to to_html
CreateWith_unlabelled(diffs, label) ==
    LET h == to_html(diffs, "default")
    IN  IF ~h.ok THEN Raised
        ELSE Decision("create", "default", 0, 0, h.content, 0)

\* self._create_new_comment(request, self._diff_processor.to_html(label))
CreateWith(diffs, label) ==
    LET h == to_html(diffs, label)
    IN  IF ~h.ok THEN Raised
        ELSE Decision("create", label, 0, 0, h.content, 0)

\* mutant: the existing comment is overwritten with the this-save diffs alone
UpdateWith_unmerged(diffs, hits, i, label, ord) ==
    LET h == to_html(diffs, label)
    IN  IF ~h.ok THEN [Raised EXCEPT !.parsed = i]
        ELSE Decision("update", label, i, hits[i].revision_id, h.content, i)

\* DiffProcessor(...).from_html(hit content), self._diff_processor.compare(
\* last_diff).to_html(label), self._update_existing_comment(..., hit)
UpdateWith(diffs, hits, i, label, ord) ==
    LET last_diff == from_html(hits[i].content)
        merged == DiffProcessor_compare(diffs, last_diff.diffs, ord)
        h == to_html(merged.diffs, label)
    IN  IF ~last_diff.ok THEN [Raised EXCEPT !.parsed = i]
        ELSE IF ~merged.ok \/ ~h.ok THEN [Raised EXCEPT !.parsed = i]
        ELSE Decision("update", label, i, hits[i].revision_id, h.content, i)

\* the branch of process_comment for status resubmitted
resubmitted_branch(hits, diffs, ord) ==
    IF /\ last_request_log_event(hits) \in {"resubmitted", "critiqued"}
       /\ last_created_comment(hits) = 0
    THEN CreateWith(diffs, "resubmit")
    ELSE IF last_created_comment(hits) = 0
         THEN Raised      \* None.get(...)
         ELSE UpdateWith(diffs, hits, last_created_comment(hits), "resubmit", ord)

\* mutant: a new comment whenever the search holds a log event
critiqued_branch_always_new(hits, diffs, ord) ==
    IF hits = <<>>
    THEN Raised
    ELSE IF \E k \in DOMAIN hits : hits[k].type = "L"
    THEN CreateWith(diffs, "update_while_critiqued")
    ELSE Decision("none", "", 0, 0, NoContent, 0)

\* the branch for status critiqued with a non-empty diff list
critiqued_branch(hits, diffs, ord) ==
    IF hits = <<>>
    THEN Raised           \* list(...)[-1] of an empty search
    ELSE IF hits[Len(hits)].type = "L"
    THEN CreateWith(diffs, "update_while_critiqued")
    ELSE IF is_comment_hit(hits[Len(hits)])
    THEN UpdateWith(diffs, hits, Len(hits), "update_while_critiqued", ord)
    ELSE Decision("none", "", 0, 0, NoContent, 0)

\* mutant: nothing is done in status review
review_branch_todo(diffs) == Decision("none", "", 0, 0, NoContent, 0)

\* the branch for status review
review_branch(diffs) == CreateWith(diffs, "update_while_review")

\* mutant: the critiqued branch is taken for an empty diff list too
process_comment_try_any_diffs(req, hits, diffs, ord) ==
    IF req.status = "resubmitted" THEN resubmitted_branch(hits, diffs, ord)
    ELSE IF req.status = "critiqued"
    THEN critiqued_branch(hits, diffs, ord)
    ELSE IF req.status = "review" THEN review_branch(diffs)
    ELSE Decision("none", "", 0, 0, NoContent, 0)

\* the body of the try block of process_comment
process_comment_try(req, hits, diffs, ord) ==
    IF req.status = "resubmitted" THEN resubmitted_branch(hits, diffs, ord)
    ELSE IF req.status = "critiqued" /\ Len(diffs) > 0
    THEN critiqued_branch(hits, diffs, ord)
    ELSE IF req.status = "review" THEN review_branch(diffs)
    ELSE Decision("none", "", 0, 0, NoContent, 0)

\* mutant: the exception is not caught
ExceptException_missing == FALSE

\* the except clause of process_comment: TRUE when the exception is caught
\* and turned into the warning
ExceptException == TRUE

\* CommentProcessor.process_comment up to its write: the decision
process_comment(req, hits, diffs, ord) ==
    IF ~validate_request(req)
    THEN Decision("invalid", "", 0, 0, NoContent, 0)
    ELSE process_comment_try(req, hits, diffs, ord)

\* the event whose content the merging branches parse, 0 when none is parsed
MergeTarget(req, hits, diffs) ==
    IF ~validate_request(req) THEN 0
    ELSE IF req.status = "resubmitted"
    THEN IF last_request_log_event(hits) \in {"resubmitted", "critiqued"}
            /\ last_created_comment(hits) = 0
         THEN 0 ELSE last_created_comment(hits)
    ELSE IF req.status = "critiqued" /\ Len(diffs) > 0 /\ hits # <<>>
            /\ is_comment_hit(hits[Len(hits)])
    THEN Len(hits)
    ELSE 0

\* the iteration orders of to_add that the call can meet
OrdersFor(req, hits, diffs) ==
    LET i == MergeTarget(req, hits, diffs)
    IN  IF i = 0 \/ ~from_html(hits[i].content).ok THEN {<<>>}
        ELSE Orders(ToAdd(diffs, from_html(hits[i].content).diffs))

\* CommentProcessor._create_new_comment: the log after the call and what the
\* call returns ("None" or the _comment_error)
create_new_comment(lg, identity, content, accepts) ==
    LET r == events_create(lg, identity, content, accepts)
    IN  [ok |-> r.ok, exc |-> r.exc, log |-> r.log,
         returns |-> IF r.ok THEN "None" ELSE "comment_error"]

\* CommentProcessor._update_existing_comment
update_existing_comment(lg, id, content, revision_id, accepts) ==
    LET r == events_update(lg, id, content, revision_id, accepts)
    IN  IF id = 0
        THEN [ok |-> FALSE, exc |-> "", log |-> lg, returns |-> "comment_error"]
        ELSE [ok |-> r.ok, exc |-> r.exc, log |-> r.log,
              returns |-> IF r.ok THEN "None" ELSE "comment_error"]

(***************************************************************************)
(* State                                                                   *)
(***************************************************************************)
VARIABLES
    status,   \* the request's status, owned by the workflow
    log,      \* the request's events, oldest first
    pc,       \* the save in progress: "idle", or "decided" between its
              \* search of the events and its write
    op,       \* the last save: what it read, what it decided, how it ended
    errors,   \* the errors collection that save was given
    mPc,      \* merge algebra: "in" before DiffProcessor.compare, "out" after
    mThis,    \* merge algebra: self._diffs
    mOther,   \* merge algebra: other.get_diffs()
    mOut,     \* merge algebra: [ok, diffs] of the call
    fPc,      \* a function of diff.py on its own: the step its run is at
    fArg,     \* ... the function and what it was given
    fRet      \* ... what the last step left

vars == <<status, log, pc, op, errors, mPc, mThis, mOther, mOut, fPc, fArg, fRet>>
mergeVars == <<mPc, mThis, mOther, mOut>>
funVars == <<fPc, fArg, fRet>>

\* the texts of the model
title == <<"metadata", ".", "title">>
A == <<"A">>
B == <<"B">>
C == <<"C">>
APipe == <<"A", "|">>

Change(key, old, new) == Build("change", key, Tup(old, new))
Add(key, v) == Build("add", key, List1(<<"f">>, v))
Remove(key, v) == Build("remove", key, List1(<<"f">>, v))

\* the this-save diffs a save can bring
SaveDiffs == {<<>>, <<Change(title, A, B)>>, <<Change(title, B, C)>>,
              <<Change(title, B, A)>>,
              <<Change(title, A, APipe)>>, <<Change(title, APipe, A)>>}

RequestOf(st) == [is_dict |-> TRUE, is_open |-> st \in OpenStatuses, status |-> st]
NoRequest == [is_dict |-> FALSE, is_open |-> FALSE, status |-> ""]

\* op: request and diffs are what the save was given, seen the number of
\* events its search returned, kind .. parsed its decision; written tells
\* whether its write went through, returned whether process_comment returned
\* (rather than raised), exc what the events service raised, calls the number
\* of create/update calls it made
OpOf(req, d, seen, dec) ==
    [request |-> req, diffs |-> d, seen |-> seen,
     kind |-> dec.kind, label |-> dec.label, id |-> dec.id,
     revision_id |-> dec.revision_id, content |-> dec.content,
     parsed |-> dec.parsed, written |-> FALSE, exc |-> "", returned |-> TRUE,
     calls |-> 0]

NoOp == OpOf(NoRequest, <<>>, 0, Decision("idle", "", 0, 0, NoContent, 0))

MergeOff == /\ mPc = "off" /\ mThis = <<>> /\ mOther = <<>>
            /\ mOut = [ok |-> TRUE, diffs |-> <<>>]

FunOff == /\ fPc = "off" /\ fArg = [fn |-> "off"] /\ fRet = [ok |-> TRUE]

Init ==
    /\ status = "submitted"
    /\ log = <<>>
    /\ pc = "idle"
    /\ op = NoOp
    /\ errors = <<>>
    /\ MergeOff
    /\ FunOff

\* a request action of the workflow: the status changes and the log event of
\* the action is appended
Workflow ==
    /\ Len(log) < MaxLog
    /\ \E t \in Transitions :
          /\ t[1] = status
          /\ status' = t[2]
          /\ log' = Append(log, LogEvent(t[2]))
    /\ UNCHANGED <<pc, op, errors, mergeVars, funVars>>

\* a person comments on the request
HumanComment ==
    /\ Len(log) < MaxLog
    /\ log' = Append(log, CommentEvent("1", HandWritten))
    /\ UNCHANGED <<status, pc, op, errors, mergeVars, funVars>>

\* another writer updates a system comment through the events service with
\* the revision it holds: the text is kept or edited by hand
ExternalUpdate ==
    /\ \E i \in DOMAIN log :
          /\ is_comment_hit(log[i])
          /\ log[i].revision_id < MaxRevision
          /\ \E content \in {log[i].content, HandWritten} :
                log' = events_update(log, i, content, log[i].revision_id, TRUE).log
    /\ UNCHANGED <<status, pc, op, errors, mergeVars, funVars>>

\* process_comment up to its write: the sanity check, the search of the
\* events, the decision.  A call that has nothing to write ends here.
SaveSearch ==
    /\ pc = "idle"
    /\ \E d \in SaveDiffs, r \in {RequestOf(status), NoRequest} :
       \E ord \in OrdersFor(r, log, d) :
       \E dec \in {process_comment(r, log, d, ord)} :
          IF dec.kind \in {"create", "update"}
          THEN /\ op' = OpOf(r, d, Len(log), dec)
               /\ errors' = <<>>
               /\ pc' = "decided"
          ELSE /\ op' = [OpOf(r, d, Len(log), dec) EXCEPT
                            !.returned = (dec.kind = "exception" => ExceptException)]
               /\ errors' = IF \/ dec.kind = "invalid"
                               \/ dec.kind = "exception" /\ ExceptException
                            THEN <<"comment_error">> ELSE <<>>
               /\ pc' = "idle"
    /\ UNCHANGED <<status, log, mergeVars, funVars>>

\* the write of process_comment and the append of what it returned
SaveWrite ==
    /\ pc = "decided"
    /\ \E accepts \in BOOLEAN :
       \E w \in {IF op.kind = "create"
                 THEN create_new_comment(log, "system", op.content,
                                         accepts /\ Len(log) < MaxLog)
                 ELSE update_existing_comment(log, op.id, op.content, op.revision_id,
                                         accepts /\ log[op.id].revision_id < MaxRevision)} :
          /\ log' = w.log
          /\ errors' = Append(errors, w.returns)
          /\ op' = [op EXCEPT !.written = w.ok, !.exc = w.exc, !.calls = 1]
    /\ pc' = "idle"
    /\ UNCHANGED <<status, mergeVars, funVars>>

\* mutant: a changed draft of a closed request is left alone
update_draft_closed_ignored(published_and_allowed, diff_list) ==
    IF published_and_allowed THEN "skipped" ELSE "unchanged"

\* CurationComponent.update_draft for a request that is not open: "skipped"
\* when the record is published and publishing edits are allowed; otherwise
\* "resubmit" when the dumps of the current and the updated draft differ
update_draft_closed(published_and_allowed, diff_list) ==
    IF published_and_allowed THEN "skipped"
    ELSE IF diff_list # <<>> THEN "resubmit"
    ELSE "unchanged"

\* a save of the draft of a request that is not open.  No comment is made and
\* nothing is appended to errors.
UpdateDraftClosed ==
    /\ pc = "idle"
    /\ status \notin OpenStatuses
    /\ \E published_and_allowed \in BOOLEAN,
          diff_list \in {<<>>, <<Change(title, A, B)>>} :
          LET kind == update_draft_closed(published_and_allowed, diff_list)
              dec == Decision(kind, "", 0, 0, NoContent, 0)
          IN  /\ op' = OpOf(RequestOf(status), diff_list, Len(log), dec)
              /\ IF kind = "resubmit"
                 THEN /\ Len(log) < MaxLog
                      /\ status' = "resubmitted"
                      /\ log' = Append(log, LogEvent("resubmitted"))
                 ELSE UNCHANGED <<status, log>>
    /\ errors' = <<>>
    /\ UNCHANGED <<pc, mergeVars, funVars>>

Next ==
    \/ Workflow \/ HumanComment \/ ExternalUpdate \/ SaveSearch \/ SaveWrite
    \/ UpdateDraftClosed

Spec == Init /\ [][Next]_vars

TypeOK ==
    /\ status \in Statuses
    /\ pc \in {"idle", "decided"}
    /\ Len(log) <= MaxLog
    /\ \A i \in DOMAIN log : log[i].revision_id <= MaxRevision

(***************************************************************************)
(* Properties of the synchronizer (specification Spec)                     *)
(***************************************************************************)
\* the events the last save's search returned: type, event and user of an
\* event never change once it is in the log
Hits == SubSeq(log, 1, op.seen)

LastLog(h) == MaxOf({k \in DOMAIN h : h[k].type = "L"})

\* the step in which a save searches and decides, and the step of its write
ClosedKinds == {"skipped", "resubmit", "unchanged"}
SearchStep == pc = "idle" /\ op' # op /\ op'.kind \notin ClosedKinds
\* the step of update_draft for a request that is not open
ClosedStep == pc = "idle" /\ op' # op /\ op'.kind \in ClosedKinds
WriteStep == pc = "decided" /\ pc' = "idle"

\* an update touches one event and no other; a create appends one event
UpdatesInPlace ==
    /\ Len(log') = Len(log)
    /\ \A j \in DOMAIN log : j # op.id => log'[j] = log[j]
    /\ op'.written => /\ log'[op.id].content = op.content
                      /\ log'[op.id].revision_id = log[op.id].revision_id + 1
                      /\ log'[op.id].user = log[op.id].user
    /\ ~op'.written => log' = log

CreatesOne ==
    /\ op'.written => log' = Append(log, CommentEvent("system", op.content))
    /\ ~op'.written => log' = log

\* the rendering of one change of the title under a label
RendersChange(content, label, old, new) ==
    /\ content.header = known_actions(label)
    /\ content.adds = <<>> /\ content.removes = <<>>
    /\ content.changes = <<[key |-> <<"metadata", " ", "title">>,
                            result |-> [kind |-> "dict", a |-> old, b |-> new]]>>

\* C1 (as claimed): in status resubmitted, when the last LogEvent of the log
\* is resubmitted or critiqued and no system comment follows it, the save
\* creates a new comment labelled resubmit and updates none, whatever
\* precedes that LogEvent.
C1_CreatesWhateverPrecedes ==
    (/\ op.kind # "idle"
     /\ op.request = RequestOf("resubmitted")
     /\ last_request_log_event(Hits) \in {"resubmitted", "critiqued"}
     /\ \A k \in DOMAIN Hits : k > LastLog(Hits) => ~is_comment_hit(Hits[k]))
    => op.kind = "create" /\ op.label = "resubmit"

C4_StaleRevisionFails ==
    [][ /\ (SearchStep /\ op'.kind = "update")
           => op'.revision_id = log[op'.id].revision_id
        /\ (WriteStep /\ op.kind = "update"
              /\ log[op.id].revision_id # op.revision_id)
           => /\ log' = log
              /\ ~op'.written /\ op'.exc = "RevisionIdMismatchError"
              /\ errors' = Append(errors, "comment_error")
              /\ op'.calls = 1 /\ op'.returned
      ]_vars

\* an update met a newer revision
C4_Witness ==
    /\ pc = "idle" /\ op.kind = "update" /\ op.exc = "RevisionIdMismatchError"
    /\ log[op.id].revision_id > op.revision_id
    /\ errors = <<"comment_error">>

MergeFails(diffs, content, label) ==
    \E ord \in Orders(ToAdd(diffs, from_html(content).diffs)) :
       \/ ~DiffProcessor_compare(diffs, from_html(content).diffs, ord).ok
       \/ ~to_html(DiffProcessor_compare(diffs, from_html(content).diffs, ord).diffs,
                   label).ok

MaxElems == 2

AB == <<"A", "B">>
BA == <<"B", "A">>
ATag == <<"<i>", "A">>

\* a path of the generic variant and the path of DiffDescription
MergeKeys == {title, DiffDescription_name}
MergeVals == {A, B, AB, BA, APipe, ATag}

\* an add of an unsupported shape: the two-item list [("f", "A"), ("f", "B")]
AddTwo(key) == Build("add", key, [kind |-> "other", a |-> <<"f">>, b |-> AB])

\* the elements a Diff Set is drawn from: a change never has old = new
MergeElems ==
    ({Change(k, x, y) : k \in MergeKeys, x \in MergeVals, y \in MergeVals} \
        {Change(k, x, x) : k \in MergeKeys, x \in MergeVals})
    \cup {Add(k, x) : k \in MergeKeys, x \in MergeVals}
    \cup {Remove(k, x) : k \in MergeKeys, x \in MergeVals}
    \cup {AddTwo(k) : k \in MergeKeys}

SyncOff == /\ status = "submitted" /\ log = <<>> /\ pc = "idle" /\ op = NoOp
           /\ errors = <<>>

\* bound: the number of elements of this and other together when all are on
\* one field path
MaxSamePath == 3

\* the elements on the one path metadata.title
SamePathElems ==
    {Change(title, w[1], w[2]) : w \in {<<A, B>>, <<B, A>>, <<B, C>>, <<C, A>>, <<A, C>>}}
    \cup {Add(title, x) : x \in {A, B}}
    \cup {Remove(title, x) : x \in {A, B}}
    \cup {AddTwo(title)}

InitMerge ==
    /\ SyncOff
    /\ FunOff
    /\ mPc = "in"
    /\ \/ \E n \in 0..MaxElems : \E m \in 0..(MaxElems - n) :
             /\ mThis \in [1..n -> MergeElems]
             /\ mOther \in [1..m -> MergeElems]
       \/ \E n \in 0..MaxSamePath : \E m \in 0..(MaxSamePath - n) :
             /\ n + m = MaxSamePath
             /\ mThis \in [1..n -> SamePathElems]
             /\ mOther \in [1..m -> SamePathElems]
    /\ mOut = [ok |-> TRUE, diffs |-> <<>>]

\* self.compare(other): mOut is what the call leaves in self._diffs
Merge ==
    /\ mPc = "in"
    /\ \E ord \in Orders(ToAdd(mThis, mOther)) :
          mOut' = DiffProcessor_compare(mThis, mOther, ord)
    /\ mPc' = "out"
    /\ UNCHANGED <<status, log, pc, op, errors, mThis, mOther, funVars>>

NextMerge == Merge

SpecMerge == InitMerge /\ [][NextMerge]_vars

(***************************************************************************)
(* Properties of the merge algebra (specification SpecMerge)               *)
(***************************************************************************)
\* no element of the result is on the field path key
NoElementFor(key) == \A i \in DOMAIN mOut.diffs : mOut.diffs[i].key # key

\* C8 (as claimed): chaining.  Merging this = [Change(p, b, c)] with other =
\* [Change(p, a, b)], a # c, leaves exactly [Change(p, a, c)].
C8_Chaining ==
    (/\ mPc = "out" /\ Len(mThis) = 1 /\ Len(mOther) = 1
     /\ mThis[1].update = "change" /\ mOther[1].update = "change"
     /\ mThis[1].key = mOther[1].key
     /\ mThis[1].result.a = mOther[1].result.b
     /\ mOther[1].result.a # mThis[1].result.b)
    => /\ mOut.ok
       /\ Len(mOut.diffs) = 1
       /\ get_joined_update(mOut.diffs[1]) =
             [update |-> "change", key |-> mThis[1].key,
              result |-> Tup(mOther[1].result.a, mThis[1].result.b)]

\* the new value of the this element as its variant normalises it: without
\* markup and surrounding blanks on metadata.description, as it is elsewhere
NormalisedNew ==
    IF mThis[1].key = DiffDescription_name
    THEN Strip(cleanup_html_tags(mThis[1].result.b))
    ELSE mThis[1].result.b

\* C8 (amended): chaining.  Merging this = [Change(p, b, c)] with other =
\* [Change(p, a, b)] leaves exactly [Change(p, a, c')], c' being c as the
\* variant of p normalises it, whenever a # c'.
C8_ChainingNormalised ==
    (/\ mPc = "out" /\ Len(mThis) = 1 /\ Len(mOther) = 1
     /\ mThis[1].update = "change" /\ mOther[1].update = "change"
     /\ mThis[1].key = mOther[1].key
     /\ mThis[1].result.a = mOther[1].result.b
     /\ mOther[1].result.a # NormalisedNew)
    => /\ mOut.ok
       /\ Len(mOut.diffs) = 1
       /\ get_joined_update(mOut.diffs[1]) =
             [update |-> "change", key |-> mThis[1].key,
              result |-> Tup(mOther[1].result.a, NormalisedNew)]

\* on metadata.description, B -> "<i>A" on top of AB -> B became AB -> A
C8_Witness ==
    /\ mPc = "out"
    /\ mThis = <<Change(DiffDescription_name, B, ATag)>>
    /\ mOther = <<Change(DiffDescription_name, AB, B)>>
    /\ Len(mOut.diffs) = 1
    /\ get_joined_update(mOut.diffs[1]) =
          [update |-> "change", key |-> DiffDescription_name, result |-> Tup(AB, A)]

\* C9 (as claimed): full revert.  Merging this = [Change(p, a, b)] with
\* other = [Change(p, b, a)] ends with a Diff Set without an element for p.
C9_FullRevert ==
    (/\ mPc = "out" /\ Len(mThis) = 1 /\ Len(mOther) = 1
     /\ mThis[1].update = "change" /\ mOther[1].update = "change"
     /\ mThis[1].key = mOther[1].key
     /\ mThis[1].result.a = mOther[1].result.b
     /\ mOther[1].result.a = mThis[1].result.b)
    => mOut.ok /\ NoElementFor(mThis[1].key)

\* C10 (as claimed): cancellation.  Merging [Add(p, v)] with [Remove(p, v)],
\* or [Remove(p, v)] with [Add(p, v)], ends with a Diff Set without an
\* element for p.
C10_Cancellation ==
    (/\ mPc = "out" /\ Len(mThis) = 1 /\ Len(mOther) = 1
     /\ {mThis[1].update, mOther[1].update} = {"add", "remove"}
     /\ mThis[1].key = mOther[1].key
     /\ mThis[1].result = mOther[1].result)
    => mOut.ok /\ NoElementFor(mThis[1].key)

\* the (operation, path, payload) of each element of a Diff Set
Joined(diffs) == [i \in DOMAIN diffs |-> get_joined_update(diffs[i])]

\* C12 (as claimed): idempotence.  Merging a Diff Set D with the empty Diff
\* Set returns D: the same elements in the same order.
C12_MergeWithEmpty ==
    (mPc = "out" /\ mOther = <<>>) => mOut.ok /\ mOut.diffs = mThis

\* an element as its variant normalises it: old and new (or the value) of
\* metadata.description without markup and surrounding blanks, any other
\* element as it is
Normalised(e) ==
    IF e.key # DiffDescription_name THEN e
    ELSE IF e.result.kind = "tuple"
    THEN [e EXCEPT !.result.a = Strip(cleanup_html_tags(@)),
                   !.result.b = Strip(cleanup_html_tags(@))]
    ELSE [e EXCEPT !.result.b = Strip(cleanup_html_tags(@))]

\* C12 (amended): merging a Diff Set D of supported element shapes with the
\* empty Diff Set returns the elements of D, each as its variant normalises
\* it, in the same order.
C12_MergeWithEmptyNormalised ==
    (/\ mPc = "out" /\ mOther = <<>>
     /\ \A i \in DOMAIN mThis : mThis[i].result.kind \in {"tuple", "list1"})
    => /\ mOut.ok
       /\ mOut.diffs = [i \in DOMAIN mThis |-> Normalised(mThis[i])]

\* a description change with markup and a title add, merged with nothing
C12_Witness ==
    /\ mPc = "out" /\ mOther = <<>>
    /\ mThis = <<Change(DiffDescription_name, ATag, B), Add(title, A)>>
    /\ mOut = [ok |-> TRUE,
               diffs |-> <<Change(DiffDescription_name, A, B), Add(title, A)>>]

\* C13 (as claimed): unrelated preservation.  Merging two Diff Sets with
\* disjoint field paths leaves every element of this, unchanged, followed by
\* every element of other.
C13_UnrelatedPreserved ==
    (/\ mPc = "out"
     /\ \A i \in DOMAIN mThis, j \in DOMAIN mOther : mThis[i].key # mOther[j].key)
    => /\ mOut.ok
       /\ Len(mOut.diffs) = Len(mThis) + Len(mOther)
       /\ SubSeq(Joined(mOut.diffs), 1, Len(mThis)) = Joined(mThis)
       /\ \E f \in Orders(DOMAIN mOther) :
             \A k \in DOMAIN mOther :
                get_joined_update(mOut.diffs[Len(mThis) + k]) =
                   get_joined_update(mOther[f[k]])

RECURSIVE IsSubSeq(_, _)
\* s is t with some of its entries left out
IsSubSeq(s, t) ==
    IF s = <<>> THEN TRUE
    ELSE IF t = <<>> THEN FALSE
    ELSE IF Head(s) = Head(t) THEN IsSubSeq(Tail(s), Tail(t))
    ELSE IsSubSeq(s, Tail(t))

\* C14 (as claimed): result ordering.  The elements of this that are left
\* keep their relative order, and the elements carried over from other
\* follow them in the relative order they had in other.
C14_ResultOrdering ==
    (mPc = "out" /\ mOut.ok)
    => LET carried == Cardinality(ToAdd(mThis, mOther))
           kept == Len(mOut.diffs) - carried
       IN  /\ kept >= 0
           /\ IsSubSeq([i \in 1..kept |->
                           <<mOut.diffs[i].update, mOut.diffs[i].key>>],
                       [i \in DOMAIN mThis |-> <<mThis[i].update, mThis[i].key>>])
           /\ IsSubSeq(SubSeq(Joined(mOut.diffs), kept + 1, Len(mOut.diffs)),
                       Joined(mOther))

\* the shapes validation keeps: a pair, a one-item list
Supported(e) == e.result.kind \in {"tuple", "list1"}

\* C22 (as claimed): first match wins.  With this = [e] and other = [o1, o2]
\* all on one field path, only o1 decides what becomes of e and only o1 is
\* consumed: the result is the result of merging [e] with [o1], followed by
\* o2.
C22_FirstMatchWins ==
    (/\ mPc = "out" /\ Len(mThis) = 1 /\ Len(mOther) = 2
     /\ mThis[1].key = mOther[1].key /\ mThis[1].key = mOther[2].key
     /\ Supported(mThis[1]) /\ Supported(mOther[1]) /\ Supported(mOther[2]))
    => /\ mOut.ok
       /\ Joined(mOut.diffs) =
             Joined(DiffProcessor_compare(mThis, <<mOther[1]>>, <<>>).diffs)
             \o <<get_joined_update(mOther[2])>>

\* B -> C on top of [A -> B, C -> A]: the second element of other was
\* compared too and took the chained element out
C22_Witness ==
    /\ mPc = "out"
    /\ mThis = <<Change(title, B, C)>>
    /\ mOther = <<Change(title, A, B), Change(title, C, A)>>
    /\ mOut = [ok |-> TRUE, diffs |-> <<>>]

\* a Diff Set as validation is meant to leave it: the supported elements,
\* each as its variant normalises it, in their order
Validated(diffs) ==
    LET kept == SelectSeq(diffs, Supported)
    IN  [i \in DOMAIN kept |-> ElemCleaned(kept[i])]

\* C23 (as claimed): both Diff Sets are validated before they are compared.
\* An unsupported element of other is dropped before the merge: the result
\* is the result of merging this with the validated other, so the element
\* consumes nothing and is not carried forward.
C23_OtherValidatedFirst ==
    (mPc = "out" /\ \E j \in DOMAIN mOther : ~Supported(mOther[j]))
    => /\ mOut.ok
       /\ \E ord \in Orders(ToAdd(mThis, Validated(mOther))) :
             Joined(mOut.diffs) =
                Joined(DiffProcessor_compare(mThis, Validated(mOther), ord).diffs)

\* the two-item add of other, which no variant supports, was carried forward
C23_Witness ==
    /\ mPc = "out"
    /\ mThis = <<>> /\ mOther = <<AddTwo(title)>>
    /\ mOut = [ok |-> TRUE, diffs |-> <<AddTwo(title)>>]

\* the cancellation rule: an add and a remove of one payload
Cancels(e, o) ==
    {e.update, o.update} = {"add", "remove"} /\ e.result = o.result

\* the Change/Change rules: chaining and full revert
BothChange(e, o) == e.update = "change" /\ o.update = "change"

\* C25 (as claimed): Keep.  With this = [e] and other = [o] on one field
\* path, when neither the cancellation rule nor a Change/Change rule
\* applies, the result is e with its payload as it was, and o is not in it.
C25_KeepDefault ==
    (/\ mPc = "out" /\ Len(mThis) = 1 /\ Len(mOther) = 1
     /\ mThis[1].key = mOther[1].key
     /\ Supported(mThis[1]) /\ Supported(mOther[1])
     /\ ~Cancels(mThis[1], mOther[1]) /\ ~BothChange(mThis[1], mOther[1]))
    => mOut.ok /\ Joined(mOut.diffs) = <<get_joined_update(mThis[1])>>

\* an add was kept over a change of the same path, which was consumed
C25_Witness ==
    /\ mPc = "out"
    /\ mThis = <<Add(title, A)>> /\ mOther = <<Change(title, A, B)>>
    /\ mOut = [ok |-> TRUE, diffs |-> <<Add(title, A)>>]

\* C28 (as claimed): an add and a remove of one field path cancel only when
\* their payloads are equal as values: merging [Add(p, v)] with
\* [Remove(p, w)], or [Remove(p, v)] with [Add(p, w)], v # w, does not drop
\* the element of this.
C28_CancelOnlyEqualValues ==
    (/\ mPc = "out" /\ Len(mThis) = 1 /\ Len(mOther) = 1
     /\ {mThis[1].update, mOther[1].update} = {"add", "remove"}
     /\ mThis[1].key = mOther[1].key
     /\ Supported(mThis[1]) /\ Supported(mOther[1])
     /\ mThis[1].result.b # mOther[1].result.b)
    => /\ mOut.ok
       /\ \E i \in DOMAIN mOut.diffs :
             /\ mOut.diffs[i].update = mThis[1].update
             /\ mOut.diffs[i].key = mThis[1].key

\* the add of "AB" was dropped against the remove of "BA"
C28_Witness ==
    /\ mPc = "out"
    /\ mThis = <<Add(title, AB)>> /\ mOther = <<Remove(title, BA)>>
    /\ mOut = [ok |-> TRUE, diffs |-> <<>>]

\* how often the (operation, path, payload) u occurs in a Diff Set
Occurrences(diffs, u) ==
    Cardinality({i \in DOMAIN diffs : get_joined_update(diffs[i]) = u})

\* C30 (as claimed): carry-forward is exact.  When no element of this is on
\* the field path of an element of other, every element of other is in the
\* result with the operation, path and payload it had, once per occurrence
\* in other, whatever characters its text holds.
C30_CarriedForwardExactly ==
    (/\ mPc = "out"
     /\ \A i \in DOMAIN mThis, j \in DOMAIN mOther : mThis[i].key # mOther[j].key)
    => /\ mOut.ok
       /\ \A j \in DOMAIN mOther :
             Occurrences(mOut.diffs, get_joined_update(mOther[j]))
                = Occurrences(mOther, get_joined_update(mOther[j]))

\* other held the same add twice and it was carried forward once
C30_Witness ==
    /\ mPc = "out"
    /\ mThis = <<>> /\ mOther = <<Add(title, A), Add(title, A)>>
    /\ mOut = [ok |-> TRUE, diffs |-> <<Add(title, A)>>]

\* a carried-forward element with "|" in its payload ended the merge with an
\* exception
C30_WitnessPipe ==
    /\ mPc = "out"
    /\ mThis = <<>> /\ mOther = <<Add(title, APipe)>>
    /\ ~mOut.ok

(***************************************************************************)
(* Properties of the synchronizer, continued (specification Spec)          *)
(***************************************************************************)
\* the values the title goes through
TitleValues == {A, B, C, APipe}

\* what a rolling comment that parses to diffs and a save Change(title, b, c)
\* on top of it amount to: the net change from the first value to c, nothing
\* when c is that first value
NetChange(diffs, c) ==
    IF diffs = <<>> THEN <<>>
    ELSE IF diffs[1].result.a = c THEN <<>>
    ELSE <<Change(title, diffs[1].result.a, c)>>

\* C21 (as claimed): saves in status critiqued that take the title through
\* v0 -> v1 -> ... -> vn within one segment leave a rolling comment that
\* parses to exactly Change(title, v0, vn) when vn # v0 and to no element
\* when vn = v0.  Step by step: the first save of the segment decides a
\* comment that parses to its change, and a save Change(title, b, c) that
\* finds the rolling comment for Change(title, a, b) last in the log decides
\* an update of that comment whose content parses to Change(title, a, c), to
\* nothing when a = c.
C21_NetChangeOverSaves ==
    [][ (/\ SearchStep
         /\ op'.request = RequestOf("critiqued")
         /\ log # <<>>
         /\ \E b, c \in TitleValues : op'.diffs = <<Change(title, b, c)>>)
        => /\ log[Len(log)].type = "L"
              => /\ op'.kind = "create"
                 /\ from_html(op'.content) = [ok |-> TRUE, diffs |-> op'.diffs]
           /\ (/\ is_comment_hit(log[Len(log)])
               /\ \E a \in TitleValues :
                     from_html(log[Len(log)].content) =
                        [ok |-> TRUE,
                         diffs |-> <<Change(title, a, op'.diffs[1].result.a)>>])
              => /\ op'.kind = "update" /\ op'.id = Len(log)
                 /\ from_html(op'.content) =
                       [ok |-> TRUE,
                        diffs |-> NetChange(from_html(log[Len(log)].content).diffs,
                                            op'.diffs[1].result.b)]
      ]_vars

\* the title went A -> "A|" -> A in one critiqued segment; the second save
\* ended with the warning and the comment still shows the first change
C21_Witness ==
    /\ pc = "idle" /\ op.kind = "exception"
    /\ op.request = RequestOf("critiqued")
    /\ op.diffs = <<Change(title, APipe, A)>>
    /\ op.seen = Len(log) /\ is_comment_hit(log[Len(log)])
    /\ from_html(log[Len(log)].content) =
          [ok |-> TRUE, diffs |-> <<Change(title, A, APipe)>>]
    /\ errors = <<"comment_error">>

\* a comment event of the system identity
SystemAuthored(e) == e.type = "C" /\ e.user = "system"

\* a comment event of any other identity
HumanAuthored(e) == e.type = "C" /\ e.user # "system"

C31_SuccessAddsNoError ==
    [][/\ WriteStep =>
            /\ op'.written => errors' = errors
            /\ ~op'.written => errors' = Append(errors, "comment_error")
       /\ (SearchStep \/ WriteStep) =>
            \A i \in DOMAIN errors' : errors'[i] = "comment_error"
      ]_vars

\* the create or the update of a save went through and the value it
\* returned, None, is the entry the save left in errors
C31_Witness ==
    /\ pc = "idle" /\ op.kind \in {"create", "update"}
    /\ op.written /\ op.calls = 1 /\ op.returned
    /\ errors = <<"None">>

\* C16: for an open request in status critiqued with an empty this-save diff,
\* and for an open request in a status other than resubmitted, critiqued and
\* review, a save decides nothing: no comment is created, no event updated,
\* the status and the log are as before and nothing is added to errors.
C16_NoOpRows ==
    [][ (/\ SearchStep
         /\ op'.request.is_dict /\ op'.request.is_open
         /\ \/ op'.request.status = "critiqued" /\ op'.diffs = <<>>
            \/ op'.request.status \notin {"resubmitted", "critiqued", "review"})
        => /\ op'.kind = "none" /\ op'.parsed = 0 /\ op'.calls = 0
           /\ log' = log /\ status' = status
           /\ errors' = <<>> /\ pc' = "idle"
      ]_vars

\* a save with no changes in status critiqued, with a system comment in the log
C16_Witness ==
    /\ pc = "idle" /\ op.kind = "none"
    /\ op.request = RequestOf("critiqued") /\ op.diffs = <<>>
    /\ op.seen = Len(log)
    /\ \E i \in DOMAIN log : is_comment_hit(log[i])

\* C17 (as claimed): for a request that is not open, a save whose full diff
\* is non-empty triggers the action resubmit and makes no comment; a save
\* whose full diff is empty triggers nothing.
C17_ClosedResubmits ==
    [][ ClosedStep
        => /\ op'.diffs # <<>>
              => /\ status' = "resubmitted"
                 /\ log' = Append(log, LogEvent("resubmitted"))
           /\ op'.diffs = <<>> => status' = status /\ log' = log
      ]_vars

\* C17 (amended): ... unless the record is published and publishing edits
\* are allowed, in which case the save triggers nothing.  In no case is a
\* comment made or anything added to errors.
C17_ClosedResubmitsUnlessEditsAllowed ==
    [][ ClosedStep
        => /\ (op'.kind # "skipped" /\ op'.diffs # <<>>)
              => /\ status' = "resubmitted"
                 /\ log' = Append(log, LogEvent("resubmitted"))
           /\ (op'.kind = "skipped" \/ op'.diffs = <<>>)
              => status' = status /\ log' = log
           /\ errors' = <<>> /\ pc' = "idle" /\ op'.calls = 0
      ]_vars

\* an accepted request went back to resubmitted on a save with changes
C17_Witness ==
    /\ pc = "idle" /\ op.kind = "resubmit"
    /\ op.request.status = "accepted" /\ op.diffs # <<>>
    /\ status = "resubmitted"
    /\ log[Len(log)] = LogEvent("resubmitted")
    /\ log[Len(log) - 1] = LogEvent("accepted")

(***************************************************************************)
(* The functions of diff.py on their own (specification SpecDiff): each    *)
(* run applies one function to an input drawn from a bounded universe      *)
(***************************************************************************)
\* the variant lists a DiffProcessor can be configured with
Variants == {"DiffDescription", "DiffElement"}
ConfiguredElements ==
    {<<>>} \cup {<<v>> : v \in Variants} \cup {<<v, w>> : v, w \in Variants}

\* raw change tuples: the keys are a generic path, the path of the
\* description, its parent and a key that is no str; the results a pair, a
\* one-pair list, a one-dict list {"description": "A"} and a longer list
RawDiffs ==
    {[update |-> u, key |-> k, result |-> r] :
        u \in {"add", "change", "remove"},
        k \in {title, DiffDescription_name, <<"metadata">>, NotStrKey},
        r \in {Tup(A, B), List1(<<"f">>, A),
               [kind |-> "listdict", a |-> <<"description">>, b |-> A],
               [kind |-> "other", a |-> <<"f">>, b |-> AB]}}

ClassifyArgs ==
    {[fn |-> "map_one_diff", conf |-> c, df |-> d] :
        c \in ConfiguredElements, d \in RawDiffs}

(***************************************************************************)
(* str() and ast.literal_eval on diff tuples.  A Python value is a node    *)
(* [t, v]: t "str" with v its text, t "num", t "tuple" / "list" with v the *)
(* sequence of the items, t "dict" with v the sequence of <<key, value>>   *)
(* pairs.  Text is a token sequence: the quote "'", the brackets, "," ":"  *)
(* " " and words, so that str() writes quotes, separators and brackets and *)
(* literal_eval has to read them back.                                     *)
(***************************************************************************)
StrNode(text) == [t |-> "str", v |-> text]
TupleNode(items) == [t |-> "tuple", v |-> items]
ListNode(items) == [t |-> "list", v |-> items]
DictNode(pairs) == [t |-> "dict", v |-> pairs]

\* the Python value of a raw diff tuple (update, key, result)
NodeOf(df) ==
    TupleNode(<<StrNode(<<df.update>>), StrNode(df.key),
                CASE df.result.kind = "tuple" ->
                        TupleNode(<<StrNode(df.result.a), StrNode(df.result.b)>>)
                  [] df.result.kind = "list1" ->
                        ListNode(<<TupleNode(<<StrNode(df.result.a), StrNode(df.result.b)>>)>>)
                  [] df.result.kind = "listdict" ->
                        ListNode(<<DictNode(<<<<StrNode(df.result.a), StrNode(df.result.b)>>>>)>>)
                  [] OTHER ->
                        ListNode(<<TupleNode(<<StrNode(df.result.a), StrNode(<<"A">>)>>),
                                   TupleNode(<<StrNode(df.result.a), StrNode(<<"B">>)>>)>>)>>)

RECURSIVE Repr(_)
RECURSIVE ReprItems(_)
RECURSIVE ReprPairs(_)
\* the items of a tuple or a list, joined with ", "
ReprItems(items) ==
    IF items = <<>> THEN <<>>
    ELSE IF Len(items) = 1 THEN Repr(items[1])
    ELSE Repr(items[1]) \o <<",", " ">> \o ReprItems(Tail(items))

ReprPairs(pairs) ==
    IF pairs = <<>> THEN <<>>
    ELSE Repr(pairs[1][1]) \o <<":", " ">> \o Repr(pairs[1][2])
         \o (IF Len(pairs) = 1 THEN <<>> ELSE <<",", " ">> \o ReprPairs(Tail(pairs)))

\* str(value) / repr(value)
Repr(node) ==
    CASE node.t = "str" -> <<"'">> \o node.v \o <<"'">>
      [] node.t = "num" -> node.v
      [] node.t = "tuple" ->
            <<"(">> \o ReprItems(node.v)
            \o (IF Len(node.v) = 1 THEN <<",">> ELSE <<>>) \o <<")">>
      [] node.t = "list" -> <<"[">> \o ReprItems(node.v) \o <<"]">>
      [] node.t = "set" -> <<"{">> \o ReprItems(node.v) \o <<"}">>
      [] OTHER -> <<"{">> \o ReprPairs(node.v) \o <<"}">>

Punct == {"(", ")", "[", "]", "{", "}", ",", ":"}
Digits == {"1"}

Lexeme(t, v) == [t |-> t, v |-> v]

\* the index of the first quote from i on, 0 when there is none
RECURSIVE NextQuote(_, _)
NextQuote(text, i) ==
    IF i > Len(text) THEN 0
    ELSE IF text[i] = "'" THEN i
    ELSE NextQuote(text, i + 1)

\* the tokenizer: blanks between lexemes are skipped, a quote opens a string
\* that runs to the next quote, a string that is not closed is an error
RECURSIVE LexFrom(_, _, _)
LexFrom(text, i, acc) ==
    IF i > Len(text) THEN [ok |-> TRUE, lx |-> acc]
    ELSE IF text[i] = " " THEN LexFrom(text, i + 1, acc)
    ELSE IF text[i] = "'"
    THEN LET j == NextQuote(text, i + 1)
         IN  IF j = 0 THEN [ok |-> FALSE, lx |-> <<>>]
             ELSE LexFrom(text, j + 1,
                          Append(acc, Lexeme("str", SubSeq(text, i + 1, j - 1))))
    ELSE IF text[i] \in Punct
    THEN LexFrom(text, i + 1, Append(acc, Lexeme("p", <<text[i]>>)))
    ELSE IF text[i] \in Digits
    THEN LexFrom(text, i + 1, Append(acc, Lexeme("num", <<text[i]>>)))
    ELSE LexFrom(text, i + 1, Append(acc, Lexeme("name", <<text[i]>>)))

IsP(lx, i, c) == i <= Len(lx) /\ lx[i] = Lexeme("p", <<c>>)

NoParse == [ok |-> FALSE, node |-> StrNode(<<>>), next |-> 0]
Parsed(node, next) == [ok |-> TRUE, node |-> node, next |-> next]

\* an expression that parses but is no literal: a name, a call, a subscript
NonLiteral == [t |-> "nonliteral", v |-> <<>>]

RECURSIVE ParseExpr(_, _)
RECURSIVE ParseAtom(_, _)
RECURSIVE Trailers(_, _, _)
RECURSIVE ItemsFrom(_, _, _, _, _)
RECURSIVE PairsFrom(_, _, _)

\* expr ("," expr)* [","] up to the closing bracket (close "" is the end of
\* the text); node.v holds the items, commas tells a tuple from a
\* parenthesised expression
ItemsFrom(lx, i, close, acc, commas) ==
    LET atEnd == IF close = "" THEN i > Len(lx) ELSE IsP(lx, i, close)
        done == [ok |-> TRUE, node |-> [t |-> "items", v |-> acc, commas |-> commas],
                 next |-> IF close = "" THEN i ELSE i + 1]
    IN  IF atEnd THEN done
        ELSE LET e == ParseExpr(lx, i)
             IN  IF ~e.ok THEN NoParse
                 ELSE IF IsP(lx, e.next, ",")
                 THEN ItemsFrom(lx, e.next + 1, close, Append(acc, e.node), commas + 1)
                 ELSE IF (IF close = "" THEN e.next > Len(lx) ELSE IsP(lx, e.next, close))
                 THEN [ok |-> TRUE,
                       node |-> [t |-> "items", v |-> Append(acc, e.node), commas |-> commas],
                       next |-> IF close = "" THEN e.next ELSE e.next + 1]
                 ELSE NoParse

\* key ":" value ("," key ":" value)* [","] up to "}"
PairsFrom(lx, i, acc) ==
    IF IsP(lx, i, "}") THEN Parsed(DictNode(acc), i + 1)
    ELSE LET k == ParseExpr(lx, i)
         IN  IF ~k.ok \/ ~IsP(lx, k.next, ":") THEN NoParse
             ELSE LET w == ParseExpr(lx, k.next + 1)
                  IN  IF ~w.ok THEN NoParse
                      ELSE IF IsP(lx, w.next, ",")
                      THEN PairsFrom(lx, w.next + 1, Append(acc, <<k.node, w.node>>))
                      ELSE IF IsP(lx, w.next, "}")
                      THEN Parsed(DictNode(Append(acc, <<k.node, w.node>>)), w.next + 1)
                      ELSE NoParse

\* adjacent string literals are one string
RECURSIVE StringsFrom(_, _, _)
StringsFrom(lx, i, acc) ==
    IF i <= Len(lx) /\ lx[i].t = "str" THEN StringsFrom(lx, i + 1, acc \o lx[i].v)
    ELSE Parsed(StrNode(acc), i)

ParseAtom(lx, i) ==
    IF i > Len(lx) THEN NoParse
    ELSE IF lx[i].t = "str" THEN StringsFrom(lx, i, <<>>)
    ELSE IF lx[i].t = "num" THEN Parsed([t |-> "num", v |-> lx[i].v], i + 1)
    ELSE IF lx[i].t = "name" THEN Parsed(NonLiteral, i + 1)
    ELSE IF IsP(lx, i, "(")
    THEN LET r == ItemsFrom(lx, i + 1, ")", <<>>, 0)
         IN  IF ~r.ok \/ (r.node.v = <<>> /\ r.node.commas > 0) THEN NoParse
             ELSE IF Len(r.node.v) = 1 /\ r.node.commas = 0
             THEN Parsed(r.node.v[1], r.next)
             ELSE Parsed(TupleNode(r.node.v), r.next)
    ELSE IF IsP(lx, i, "[")
    THEN LET r == ItemsFrom(lx, i + 1, "]", <<>>, 0)
         IN  IF ~r.ok \/ (r.node.v = <<>> /\ r.node.commas > 0) THEN NoParse
             ELSE Parsed(ListNode(r.node.v), r.next)
    ELSE IF IsP(lx, i, "{")
    THEN IF IsP(lx, i + 1, "}") THEN Parsed(DictNode(<<>>), i + 2)
         ELSE LET d == PairsFrom(lx, i + 1, <<>>)
                  r == ItemsFrom(lx, i + 1, "}", <<>>, 0)
              IN  IF d.ok THEN d
                  \* {a, b} is a set display
                  ELSE IF r.ok /\ r.node.v # <<>>
                  THEN Parsed([t |-> "set", v |-> r.node.v], r.next)
                  ELSE NoParse
    ELSE NoParse

\* atom "(" ... ")" is a call and atom "[" ... "]" a subscript
Trailers(lx, node, i) ==
    IF IsP(lx, i, "(")
    THEN LET r == ItemsFrom(lx, i + 1, ")", <<>>, 0)
         IN  IF ~r.ok \/ (r.node.v = <<>> /\ r.node.commas > 0) THEN NoParse
             ELSE Trailers(lx, NonLiteral, r.next)
    ELSE IF IsP(lx, i, "[")
    THEN LET r == ItemsFrom(lx, i + 1, "]", <<>>, 0)
         IN  IF ~r.ok \/ r.node.v = <<>> THEN NoParse
             ELSE Trailers(lx, NonLiteral, r.next)
    ELSE Parsed(node, i)

ParseExpr(lx, i) ==
    LET a == ParseAtom(lx, i)
    IN  IF ~a.ok THEN NoParse ELSE Trailers(lx, a.node, a.next)

RECURSIVE IsLiteral(_)
\* what _convert of ast.literal_eval accepts
IsLiteral(node) ==
    CASE node.t \in {"str", "num"} -> TRUE
      [] node.t \in {"tuple", "list", "set"} ->
            \A i \in DOMAIN node.v : IsLiteral(node.v[i])
      [] node.t = "dict" ->
            \A i \in DOMAIN node.v : IsLiteral(node.v[i][1]) /\ IsLiteral(node.v[i][2])
      [] OTHER -> FALSE

EvalRaised(exc) == [ok |-> FALSE, exc |-> exc, val |-> StrNode(<<>>)]

\* ast.literal_eval(text): [ok, exc, val]
literal_eval(text) ==
    LET l == LexFrom(text, 1, <<>>)
        r == ItemsFrom(l.lx, 1, "", <<>>, 0)
    IN  IF ~l.ok THEN EvalRaised("SyntaxError")
        ELSE IF ~r.ok \/ r.node.v = <<>> THEN EvalRaised("SyntaxError")
        ELSE LET node == IF Len(r.node.v) = 1 /\ r.node.commas = 0
                         THEN r.node.v[1] ELSE TupleNode(r.node.v)
             IN  IF ~IsLiteral(node) THEN EvalRaised("ValueError")
                 ELSE [ok |-> TRUE, exc |-> "", val |-> node]

\* DiffElement.from_html
DiffElement_from_html(text) == literal_eval(text)

\* a path with a space inside a segment: "metadata.my field"
SpaceKey == <<"metadata", ".", "my", " ", "field">>

RenderKeys == {title, DiffDescription_name, SpaceKey}

\* the elements of the rendered Diff Sets: supported shapes only
RenderElems ==
    {Change(k, w[1], w[2]) : k \in RenderKeys, w \in {<<A, B>>, <<ATag, B>>, <<B, ATag>>}}
    \cup {Add(k, v) : k \in RenderKeys, v \in {A, ATag}}
    \cup {Remove(k, v) : k \in RenderKeys, v \in {A, ATag}}

\* the action labels given to to_html; "publish" is not in _known_actions
RenderLabels == {"resubmit", "update_while_critiqued", "update_while_review", "publish"}

RenderArgs ==
    {[fn |-> "to_html", diffs |-> d, action |-> a] :
        d \in UNION {[1..n -> RenderElems] : n \in 0..MaxElems},
        a \in RenderLabels}

\* the diff tuples whose str() is parsed back
EvalArgs ==
    {[fn |-> "from_html", df |-> d] :
        d \in {r \in RawDiffs : r.key \in {title, DiffDescription_name}}}

\* bound: the number of elements of a validated Diff Set
MaxValidated == 3

\* the Diff Sets given to validation: supported and unsupported elements,
\* some with the same operation and field path
ValidateElems ==
    {Add(title, A), Add(title, AB), AddTwo(title),
     Change(DiffDescription_name, ATag, B), AddTwo(DiffDescription_name),
     \* a change with a one-item list and an add with a pair
     Build("change", title, List1(<<"f">>, A)), Build("add", title, Tup(A, B))}

ValidateArgs ==
    {[fn |-> "validate_and_cleanup", diffs |-> d] :
        d \in UNION {[1..n -> ValidateElems] : n \in 0..MaxValidated}}

DiffArgs == ClassifyArgs \cup RenderArgs \cup EvalArgs \cup ValidateArgs

InitDiff ==
    /\ SyncOff
    /\ MergeOff
    /\ fPc = "in"
    /\ fArg \in DiffArgs
    /\ fRet = [ok |-> TRUE]

\* DiffProcessor(configured_elements=conf)._map_one_diff(df)
Classify ==
    /\ fPc = "in" /\ fArg.fn = "map_one_diff"
    /\ fRet' = map_one_diff_with(fArg.conf, fArg.df)
    /\ fPc' = "out"
    /\ UNCHANGED <<status, log, pc, op, errors, mergeVars, fArg>>

NotParsed == [ok |-> TRUE, diffs |-> <<>>]

\* DiffProcessor(diffs).to_html(action), kept as the lines of the text
Render ==
    /\ fPc = "in" /\ fArg.fn = "to_html"
    /\ LET r == to_html(fArg.diffs, fArg.action)
       IN  fRet' = [ok |-> r.ok,
                    lines |-> IF r.ok THEN ContentLines(r.content) ELSE <<>>,
                    edit |-> "none",
                    parsed |-> NotParsed]
    /\ fPc' = "rendered"
    /\ UNCHANGED <<status, log, pc, op, errors, mergeVars, fArg>>

Sentinels == {DiffProcessor_added, DiffProcessor_changed, DiffProcessor_removed}

\* a literal that is no dict, e.g. the text "[1]"
NonDictLine ==
    [kind |-> "nondict", text |-> <<>>, key |-> <<>>, result |-> Tup(<<>>, <<>>)]

\* someone edits the stored comment by hand before it is read back: a line
\* after the header is deleted, overwritten with free text or with another
\* literal, or a sentinel is overwritten with another sentinel
HandEdit ==
    /\ fPc = "rendered" /\ fRet.ok
    /\ \E i \in 2..Len(fRet.lines) :
          \/ fRet' = [fRet EXCEPT !.lines = RemoveAt(@, i), !.edit = "delete"]
          \/ fRet' = [fRet EXCEPT !.lines[i] = TextLine(<<"hand">>), !.edit = "text"]
          \/ fRet' = [fRet EXCEPT !.lines[i] = NonDictLine, !.edit = "literal"]
          \/ /\ fRet.lines[i].kind = "text"
             /\ \E t \in Sentinels \ {fRet.lines[i].text} :
                   fRet' = [fRet EXCEPT !.lines[i] = TextLine(t), !.edit = "sentinel"]
    /\ fPc' = "edited"
    /\ UNCHANGED <<status, log, pc, op, errors, mergeVars, fArg>>

\* DiffProcessor(configured_elements=comments_mapping).from_html(text)
Parse ==
    /\ fPc \in {"rendered", "edited"} /\ fRet.ok
    /\ fRet' = [fRet EXCEPT !.parsed = from_html_lines(fRet.lines)]
    /\ fPc' = "parsed"
    /\ UNCHANGED <<status, log, pc, op, errors, mergeVars, fArg>>

NotEvaluated == [ok |-> TRUE, exc |-> "", val |-> StrNode(<<>>)]

\* str(diff tuple): the text kept as base_content_object
Str ==
    /\ fPc = "in" /\ fArg.fn = "from_html"
    /\ fRet' = [ok |-> TRUE, text |-> Repr(NodeOf(fArg.df)), edit |-> "none",
                parsed |-> NotEvaluated]
    /\ fPc' = "text"
    /\ UNCHANGED <<status, log, pc, op, errors, mergeVars, fArg>>

\* text that is no str() of a diff tuple: the sample of tests/diff.py, a bare
\* word and the list [1]
MalformedSamples ==
    {<<"malformed", " ", "object", ":", " ", "test">>, <<"hello">>, <<"[", "1", "]">>}

\* the text is damaged before it is parsed: one bracket, comma or colon is
\* lost, or the text is replaced by one that is no diff tuple at all
Garble ==
    /\ fPc = "text"
    /\ \/ \E i \in DOMAIN fRet.text :
             /\ fRet.text[i] \in Punct
             /\ fRet' = [fRet EXCEPT !.text = RemoveAt(@, i), !.edit = "delete"]
       \/ \E t \in MalformedSamples :
             fRet' = [fRet EXCEPT !.text = t, !.edit = "replace"]
    /\ fPc' = "garbled"
    /\ UNCHANGED <<status, log, pc, op, errors, mergeVars, fArg>>

\* DiffElement().from_html(text)
Eval ==
    /\ fPc \in {"text", "garbled"}
    /\ fRet' = [fRet EXCEPT !.parsed = DiffElement_from_html(fRet.text)]
    /\ fPc' = "evaluated"
    /\ UNCHANGED <<status, log, pc, op, errors, mergeVars, fArg>>

\* DiffProcessor(diffs).validate_and_cleanup(): what is left in self._diffs
ValidateSet ==
    /\ fPc = "in" /\ fArg.fn = "validate_and_cleanup"
    /\ LET cleaned == [i \in DOMAIN fArg.diffs |->
                          IF ElemValid(fArg.diffs[i]) THEN ElemCleaned(fArg.diffs[i])
                          ELSE fArg.diffs[i]]
       IN  fRet' = [ok |-> RemoveEach(cleaned, InvalidOf(cleaned)).ok,
                    diffs |-> validate_and_cleanup(fArg.diffs)]
    /\ fPc' = "out"
    /\ UNCHANGED <<status, log, pc, op, errors, mergeVars, fArg>>

NextDiff ==
    \/ Classify \/ Render \/ HandEdit \/ Parse \/ Str \/ Garble \/ Eval
    \/ ValidateSet

SpecDiff == InitDiff /\ [][NextDiff]_vars

\* the match predicate of a variant as the classifier is meant to apply it:
\* Generic accepts every tuple; Description accepts its path, given as the
\* key or as the key and the one key of a one-dict list
Accepts(cls, df) ==
    \/ cls = "DiffElement"
    \/ IsStr(df.key) /\ df.key = DiffDescription_name
    \/ /\ IsStr(df.key) /\ df.result.kind = "listdict"
       /\ df.key \o <<".">> \o df.result.a = DiffDescription_name

FirstAccepting(conf, df) ==
    LET S == {i \in DOMAIN conf : Accepts(conf[i], df)}
    IN  IF S = {} THEN "DiffElement"
        ELSE conf[CHOOSE i \in S : \A j \in S : i <= j]

\* C18 (as claimed): classification is total and first-match: for every raw
\* tuple and every configured list it returns the first variant of the list
\* that accepts the tuple, Generic when none does, and never raises.
C18_ClassifyTotalFirstMatch ==
    (fPc = "out" /\ fArg.fn = "map_one_diff")
    => fRet.ok /\ fRet.cls = FirstAccepting(fArg.conf, fArg.df)


\* the elements of one operation kind, in the order of the Diff Set
GroupOf(diffs, update) ==
    LET Is(e) == e.update = update IN SelectSeq(diffs, Is)

RECURSIVE RunFrom(_, _)
\* the entry lines from line i up to the next line of free text
RunFrom(lines, i) ==
    IF i > Len(lines) \/ lines[i].kind = "text" THEN <<>>
    ELSE <<lines[i]>> \o RunFrom(lines, i + 1)

\* the lines after the header that are the section header msg
HeadersOf(lines, msg) == {i \in 2..Len(lines) : lines[i] = TextLine(msg)}

\* the entries under the section header msg
EntriesUnder(lines, msg) ==
    IF HeadersOf(lines, msg) = {} THEN <<>>
    ELSE RunFrom(lines, 1 + CHOOSE i \in HeadersOf(lines, msg) :
                                \A j \in HeadersOf(lines, msg) : i <= j)

\* the header line a label stands for
ExpectedHeader(action) ==
    IF action = "resubmit" THEN <<"resubmitted", " ", "changes">>
    ELSE IF action = "update_while_critiqued" THEN <<"work", " ", "in", " ", "progress">>
    ELSE IF action = "update_while_review" THEN <<"updated">>
    ELSE <<"Action", " ", "triggered">>

\* a group is rendered as one section header and its entries in order, or as
\* nothing when it is empty
GroupRendered(lines, diffs, update, msg) ==
    LET g == GroupOf(diffs, update)
    IN  /\ Cardinality(HeadersOf(lines, msg)) = (IF g = <<>> THEN 0 ELSE 1)
        /\ EntriesUnder(lines, msg)
              = [i \in DOMAIN g |-> DictLine(DiffElement_to_html(Normalised(g[i])))]

SectionLines(diffs, update) ==
    IF GroupOf(diffs, update) = <<>> THEN 0 ELSE 1 + Len(GroupOf(diffs, update))

\* C19: to_html puts the elements into the groups Added, Changed and Removed
\* by operation kind, keeps the order of the elements inside each group,
\* writes a section header only for a group that is not empty, and starts
\* with the header of the action label, the default header for a label it
\* does not know.
C19_RenderGroups ==
    (fPc = "rendered" /\ fArg.fn = "to_html" /\ fRet.ok)
    => /\ fRet.lines[1] = TextLine(ExpectedHeader(fArg.action))
       /\ GroupRendered(fRet.lines, fArg.diffs, "add", DiffProcessor_added)
       /\ GroupRendered(fRet.lines, fArg.diffs, "change", DiffProcessor_changed)
       /\ GroupRendered(fRet.lines, fArg.diffs, "remove", DiffProcessor_removed)
       /\ Len(fRet.lines) = 1 + SectionLines(fArg.diffs, "add")
                              + SectionLines(fArg.diffs, "change")
                              + SectionLines(fArg.diffs, "remove")

\* a change followed by an add was rendered under a label that is not known:
\* default header, Added before Changed, no Removed section
C19_Witness ==
    /\ fPc = "rendered" /\ fArg.fn = "to_html" /\ fRet.ok
    /\ fArg.action = "publish"
    /\ fArg.diffs = <<Change(title, A, B), Add(DiffDescription_name, ATag)>>
    /\ Len(fRet.lines) = 5
    /\ fRet.lines[2] = TextLine(DiffProcessor_added)
    /\ fRet.lines[4] = TextLine(DiffProcessor_changed)


\* an element up to the text differences of whitespace and markup stripping
Tolerated(e) ==
    [update |-> e.update, key |-> e.key,
     result |-> [e.result EXCEPT !.a = Strip(cleanup_html_tags(@)),
                                 !.b = Strip(cleanup_html_tags(@))]]

ElementSet(diffs) == {Tolerated(diffs[i]) : i \in DOMAIN diffs}

\* C11 (as claimed): round trip.  For every Diff Set D of supported element
\* shapes and every action label, from_html(to_html(D, label)) holds exactly
\* the elements of D (same operation, same path, same payload up to
\* whitespace and markup stripping), also for a path with a space inside a
\* segment.
C11_RoundTrip ==
    (fPc = "parsed" /\ fArg.fn = "to_html" /\ fRet.edit = "none")
    => /\ fRet.parsed.ok
       /\ ElementSet(fRet.parsed.diffs) = ElementSet(fArg.diffs)

\* a Diff Set with an element under each of two plain paths came back
C11_Witness ==
    /\ fPc = "parsed" /\ fArg.fn = "to_html" /\ fRet.edit = "none"
    /\ fArg.diffs = <<Change(title, ATag, B), Remove(DiffDescription_name, A)>>
    /\ fRet.parsed.ok
    /\ ElementSet(fRet.parsed.diffs) = ElementSet(fArg.diffs)


\* the section a sentinel opens, in the order of the template
Rank(text) ==
    CASE text = DiffProcessor_added -> 1
      [] text = DiffProcessor_changed -> 2
      [] text = DiffProcessor_removed -> 3
      [] OTHER -> 0

\* the sentinel that governs line i: the last one before it, 0 when none
ZoneAt(lines, i) ==
    LET S == {j \in 2..(i - 1) : lines[j].kind = "text" /\ Rank(lines[j].text) > 0}
    IN  IF S = {} THEN 0
        ELSE Rank(lines[CHOOSE j \in S : \A k \in S : k <= j].text)

\* the textual form to_html produces: a header line, then the sections in
\* the order Added, Changed, Removed, each at most once and each a sentinel
\* followed by at least one entry; an entry under Changed is a dict under
\* its key, an entry under Added or Removed is not
WellFormed(lines) ==
    /\ Len(lines) >= 1
    /\ lines[1].kind = "text"
    /\ \A i \in 2..Len(lines) :
          \/ /\ lines[i].kind = "text" /\ Rank(lines[i].text) > ZoneAt(lines, i)
             /\ i < Len(lines) /\ lines[i + 1].kind = "dict"
          \/ /\ lines[i].kind = "dict" /\ ZoneAt(lines, i) > 0
             /\ (ZoneAt(lines, i) = 2) <=> (lines[i].result.kind = "dict")

\* C15 (as claimed): from_html of comment content that is not of the textual
\* form to_html produces raises a parse failure; it never returns a Diff Set.
C15_MalformedRaises ==
    (fPc = "parsed" /\ fArg.fn = "to_html" /\ ~WellFormed(fRet.lines))
    => ~fRet.parsed.ok

\* the one Changed: sentinel of a rendered comment was deleted and the entry
\* it governed, now before any sentinel, was left out without an error
C15_Witness ==
    /\ fPc = "parsed" /\ fArg.fn = "to_html" /\ fRet.edit = "delete"
    /\ fArg.diffs = <<Change(title, A, B)>>
    /\ Len(fRet.lines) = 2 /\ fRet.lines[2].kind = "dict"
    /\ ~WellFormed(fRet.lines)
    /\ fRet.parsed = [ok |-> TRUE, diffs |-> <<>>]


\* C20 (as claimed): parsing the str() form of a diff tuple returns a tuple
\* equal to the original, for a change tuple with an (old, new) pair and for
\* a tuple with a list payload; parsing malformed text raises SyntaxError
\* and returns no value.
C20_TupleTextRoundTrip ==
    (fPc = "evaluated" /\ fArg.fn = "from_html")
    => IF fRet.edit = "none"
       THEN fRet.parsed.ok /\ fRet.parsed.val = NodeOf(fArg.df)
       ELSE ~fRet.parsed.ok /\ fRet.parsed.exc = "SyntaxError"

\* the comma of an (old, new) pair was lost and the text still evaluated,
\* to another value
C20_Witness ==
    /\ fPc = "evaluated" /\ fArg.fn = "from_html" /\ fRet.edit = "delete"
    /\ fArg.df = [update |-> "change", key |-> title, result |-> Tup(A, B)]
    /\ fRet.parsed.ok
    /\ fRet.parsed.val # NodeOf(fArg.df)


\* C24 (as claimed): validation of a Diff Set removes exactly the elements
\* whose own validate_and_cleanup returns False, raises nothing and leaves
\* every other element in its relative order, also when two elements have
\* the same operation and field path.
C24_ValidationRemovesInvalid ==
    (fPc = "out" /\ fArg.fn = "validate_and_cleanup")
    => fRet.ok /\ fRet.diffs = Validated(fArg.diffs)

\* of a supported add and an unsupported add of one path the supported one
\* was removed
C24_Witness ==
    /\ fPc = "out" /\ fArg.fn = "validate_and_cleanup"
    /\ fArg.diffs = <<Add(title, AB), AddTwo(title)>>
    /\ fRet = [ok |-> TRUE, diffs |-> <<AddTwo(title)>>]


\* the shape of the data model: a change carries the two values (old, new),
\* an add or a remove carries one value
ShapeOK(e) ==
    IF e.update = "change" THEN e.result.kind = "tuple"
    ELSE e.result.kind = "list1"

\* C26 (as claimed): every element that is left in a Diff Set after
\* validation has the shape of the data model.
C26_ShapeAfterValidation ==
    (fPc = "out" /\ fArg.fn = "validate_and_cleanup")
    => \A i \in DOMAIN fRet.diffs : ShapeOK(fRet.diffs[i])

\* an add carrying a pair went through validation
C26_Witness ==
    /\ fPc = "out" /\ fArg.fn = "validate_and_cleanup"
    /\ fArg.diffs = <<Build("add", title, Tup(A, B))>>
    /\ fRet = [ok |-> TRUE, diffs |-> <<Build("add", title, Tup(A, B))>>]


(***************************************************************************)
(* Two saves of one request at a time (specification SpecRace)             *)
(*                                                                         *)
(* pc, op and errors hold one entry per save.  Each save is the            *)
(* process_comment of the synchronizer: its search and decision in one     *)
(* step, its write in another, so that the other save can run in between.  *)
(***************************************************************************)
Procs == {1, 2}

\* the this-save diffs of the two saves
RaceDiffs == {<<>>, <<Change(title, A, B)>>}

InitRace ==
    /\ status = "submitted"
    /\ log = <<>>
    /\ pc = [p \in Procs |-> "idle"]
    /\ op = [p \in Procs |-> NoOp]
    /\ errors = [p \in Procs |-> <<>>]
    /\ MergeOff
    /\ FunOff

\* process_comment of one save up to its write
RaceSearch ==
    /\ \E p \in Procs, d \in RaceDiffs, r \in {RequestOf(status)} :
       \E ord \in OrdersFor(r, log, d) :
       \E dec \in {process_comment(r, log, d, ord)} :
          /\ pc[p] = "idle"
          /\ IF dec.kind \in {"create", "update"}
             THEN /\ op' = [op EXCEPT ![p] = OpOf(r, d, Len(log), dec)]
                  /\ errors' = [errors EXCEPT ![p] = <<>>]
                  /\ pc' = [pc EXCEPT ![p] = "decided"]
             ELSE /\ op' = [op EXCEPT ![p] = [OpOf(r, d, Len(log), dec) EXCEPT
                               !.returned = (dec.kind = "exception" => ExceptException)]]
                  /\ errors' = [errors EXCEPT ![p] =
                                   IF \/ dec.kind = "invalid"
                                      \/ dec.kind = "exception" /\ ExceptException
                                   THEN <<"comment_error">> ELSE <<>>]
                  /\ pc' = pc
    /\ UNCHANGED <<status, log, mergeVars, funVars>>

\* the write of one save and the append of what it returned
RaceWrite ==
    /\ \E p \in Procs :
          /\ pc[p] = "decided"
          /\ \E accepts \in BOOLEAN :
             \E w \in {IF op[p].kind = "create"
                       THEN create_new_comment(log, "system", op[p].content,
                                               accepts /\ Len(log) < MaxLog)
                       ELSE update_existing_comment(log, op[p].id, op[p].content,
                                               op[p].revision_id,
                                               accepts /\ log[op[p].id].revision_id < MaxRevision)} :
                /\ log' = w.log
                /\ errors' = [errors EXCEPT ![p] = Append(errors[p], w.returns)]
                /\ op' = [op EXCEPT ![p] = [op[p] EXCEPT !.written = w.ok,
                                                         !.exc = w.exc, !.calls = 1]]
          /\ pc' = [pc EXCEPT ![p] = "idle"]
    /\ UNCHANGED <<status, mergeVars, funVars>>

NextRace == Workflow \/ RaceSearch \/ RaceWrite

SpecRace == InitRace /\ [][NextRace]_vars

\* save p is about to make the second of two creates: both saves searched
\* the same log in status critiqued or resubmitted, both decided to create,
\* and the comment of save q is the one event written since
SecondCreate(p, q) ==
    /\ pc[p] = "decided" /\ pc[q] = "idle"
    /\ op[p].kind = "create" /\ op[q].kind = "create"
    /\ op[p].request.status \in {"critiqued", "resubmitted"}
    /\ op[q].request = op[p].request
    /\ op[q].seen = op[p].seen /\ op[q].written
    /\ Len(log) = op[p].seen + 1 /\ SystemAuthored(log[Len(log)])

\* C29: of two saves that both read the log before either wrote and both
\* decided to create the rolling comment of the segment, at most one adds a
\* comment: the create of the save that writes second leaves the log as it is.
C29_OneCreatePerSegment ==
    [][\A p \in Procs : \A q \in Procs \ {p} :
          SecondCreate(p, q) /\ pc'[p] = "idle" => log' = log]_vars

\* both creates went through: the segment after the critiqued log event holds
\* two system comments
C29_Witness ==
    /\ status = "critiqued"
    /\ \E p \in Procs : \E q \in Procs \ {p} :
          /\ pc[p] = "idle" /\ pc[q] = "idle"
          /\ op[p].kind = "create" /\ op[q].kind = "create"
          /\ op[p].written /\ op[q].written
          /\ op[p].seen = op[q].seen /\ Len(log) = op[p].seen + 2
          /\ log[op[p].seen] = LogEvent("critiqued")
          /\ SystemAuthored(log[Len(log) - 1]) /\ SystemAuthored(log[Len(log)])

============================================================================
